---------------------------- MODULE Spec2Model ----------------------------
(***************************************************************************)
(* AuthorizerV2: the OAuth2 credential supplier of go-twitter-pro.         *)
(*                                                                         *)
(* The model follows the Go source.  Each goroutine calling into the       *)
(* authorizer is a thread with a program counter.  A step of a thread is   *)
(* one access to the shared object (an acquisition of o.mu, a read under   *)
(* the read lock, a write under the exclusive lock) together with the      *)
(* statements on locals that follow it; the network call of the token      *)
(* exchange is in flight between two steps, and the goroutine started by   *)
(* `go o.callback(...)` runs in a step of its own.  Time is in seconds.    *)
(* The token endpoint is the environment: it fails an exchange or answers  *)
(* 200 with a body of its choice.                                          *)
(***************************************************************************)
EXTENDS Integers, Sequences, FiniteSets, TLC

(***************************************************************************)
(* Bounds of the model.                                                    *)
(***************************************************************************)
MaxCalls == 2   \* calls of the public operations in one behaviour
MaxIssued == 2  \* 200 responses the token endpoint gives in one behaviour
MaxTicks == 1   \* advances of the clock in one behaviour

\* The goroutines calling into one authorizer.
Threads == {"g1", "g2"}
NoThread == "none"

(***************************************************************************)
(* Program constants, in seconds.                                          *)
(***************************************************************************)
RefreshBuffer == 300
DefaultExpiry == 7200

(***************************************************************************)
(* Go's int and time.Duration are 64 bits wide (on the 64-bit platforms).  *)
(* A 64-bit value is its eight bytes in two's complement, the lowest       *)
(* first, so that the products of time.Duration wrap as they do in Go.     *)
(***************************************************************************)
\* The 64-bit value of an integer of the model.
Int64(n) ==
    LET m == IF n >= 0 THEN n ELSE -n - 1
        b(i) == (m \div 256^(i - 1)) % 256
    IN IF n >= 0
       THEN <<b(1), b(2), b(3), b(4), 0, 0, 0, 0>>
       ELSE <<255 - b(1), 255 - b(2), 255 - b(3), 255 - b(4),
              255, 255, 255, 255>>

\* math.MaxInt64
MaxInt64 == <<255, 255, 255, 255, 255, 255, 255, 127>>

\* The bitwise complement of a 64-bit value.
Not64(x) ==
    <<255 - x[1], 255 - x[2], 255 - x[3], 255 - x[4],
      255 - x[5], 255 - x[6], 255 - x[7], 255 - x[8]>>

Negative64(x) == x[8] >= 128
Positive64(x) == ~Negative64(x) /\ x # Int64(0)

\* x * k in 64 bits, for a small k: the carry out of the top byte is lost.
RECURSIVE Carry64(_, _, _)
Carry64(x, k, i) ==
    IF i = 1 THEN 0 ELSE (x[i - 1] * k + Carry64(x, k, i - 1)) \div 256

Mul64(x, k) ==
    LET b(i) == (x[i] * k + Carry64(x, k, i)) % 256
    IN <<b(1), b(2), b(3), b(4), b(5), b(6), b(7), b(8)>>

\* time.Duration(n) * time.Second, in nanoseconds: time.Second is 10^9.
MulSecond(x) == Mul64(Mul64(Mul64(x, 1000), 1000), 1000)

\* Bit i (1 the lowest) of a 64-bit value.
Bit64(x, i) == (x[((i - 1) \div 8) + 1] \div 2^((i - 1) % 8)) % 2

\* The whole seconds in an unsigned 64-bit count of nanoseconds, by long
\* division from bit i down with quotient q and remainder r so far.
RECURSIVE DivSecond(_, _, _, _)
DivSecond(x, i, q, r) ==
    IF i = 0 THEN q
    ELSE LET r2 == 2 * r + Bit64(x, i)
         IN IF r2 >= 1000000000
            THEN DivSecond(x, i - 1, 2 * q + 1, r2 - 1000000000)
            ELSE DivSecond(x, i - 1, 2 * q, r2)

\* The seconds, rounded down, of a time.Duration d: what Time.Add(d) adds to
\* a time of whole seconds, in the seconds of the model's clock.
DurationSeconds(d) ==
    IF Negative64(d)
    THEN -DivSecond(Not64(d), 64, 0, 0) - 1
    ELSE DivSecond(d, 64, 0, 0)

\* The clock advances by the default lifetime less the buffer: 6900 seconds
\* after a token of the default lifetime was written is the first instant at
\* which it is stale, and every token of a shorter lifetime is stale then.
TickSteps == {DefaultExpiry - RefreshBuffer}


\* Construction inputs.
CtorAccess == {"a0"}
CtorRefresh == {"", "r0"}
CtorClientID == {"cid"}
CtorClientSecret == {"sec"}

\* Arguments of UpdateTokens.
UpdAccess == {"", "ua"}
UpdRefresh == {"", "ur"}

\* The Authorization values a request carries when it is handed to Add.
ReqHeaders == {<<>>, <<"Basic old">>}

\* The tokens of the k-th 200 response of the endpoint.
IssuedAccess(k) == "a" \o ToString(k)
IssuedRefresh(k) == "r" \o ToString(k)

\* The bodies the endpoint may give as its k-th 200 response, as
\* <<access_token, refresh_token, expires_in>>: a full body whose lifetime is
\* one second longer than the buffer, a full body whose lifetime is shorter
\* than the buffer, bodies without refresh_token whose expires_in is absent
\* (0), negative or the largest an int holds (a token that is not to
\* expire), and a body without access_token.
ExpiresInValues ==
    <<Int64(RefreshBuffer + 1), Int64(1), Int64(0), Int64(-1), MaxInt64>>

Responses(k) ==
    {<<IssuedAccess(k), IssuedRefresh(k), ExpiresInValues[1]>>,
     <<IssuedAccess(k), IssuedRefresh(k), ExpiresInValues[2]>>,
     <<IssuedAccess(k), "", ExpiresInValues[3]>>,
     <<IssuedAccess(k), "", ExpiresInValues[4]>>,
     <<IssuedAccess(k), "", ExpiresInValues[5]>>,
     <<"", IssuedRefresh(k), ExpiresInValues[3]>>}

\* time.Duration(e) * time.Second in seconds, for the expires_in values of
\* the responses.
ExpiresInSeconds ==
    <<DurationSeconds(MulSecond(ExpiresInValues[1])),
      DurationSeconds(MulSecond(ExpiresInValues[2])),
      DurationSeconds(MulSecond(ExpiresInValues[3])),
      DurationSeconds(MulSecond(ExpiresInValues[4])),
      DurationSeconds(MulSecond(ExpiresInValues[5]))>>

\* Error values: the message prefixes of the fmt.Errorf calls.
NoErr == "nil"
ErrNoRefreshToken == "no refresh token available"
ErrDo == "failed to refresh token"
ErrStatus == "token refresh failed with status"
ErrDecode == "failed to decode token response"

TokenURLDefault == "https://api.twitter.com/2/oauth2/token"

VARIABLES
    \* fields of AuthorizerV2
    accessToken, refreshToken, clientID, clientSecret, tokenURL, callback,
    expiresAt,
    \* o.mu: the goroutines holding the read lock, and the one holding the
    \* exclusive lock (NoThread when none)
    rlocks, wlock,
    \* time.Now(), and how often it has advanced
    now, ticks,
    \* per goroutine: program counter, operation in progress, its arguments
    \* and its locals
    pc, op, arg, lv,
    \* what the call that returned last returned
    ret,
    \* the token endpoint: 200 responses given so far
    issued,
    \* goroutines started by `go o.callback(...)` that have not run yet, and
    \* the invocations of the callback in the order they happened
    pendingCb, cbLog,
    \* public calls started so far
    calls,
    \* history: the arguments of NewAuthorizerV2
    ctor,
    \* history, per goroutine: the object as it was when the goroutine took
    \* the exclusive lock it holds
    pre,
    \* history: which operation last wrote accessToken, which expiresAt
    accessWriter, expiryWriter,
    \* history: the (access, refresh) pair each exchange left in the cache
    written,
    \* history: the (access_token, refresh_token) of each 200 response, and
    \* the calls of UpdateTokens made so far
    answered, updates,
    \* the Client: the function of the client library under way (the last
    \* one called), its position, its argument, the calls it has made on
    \* c.Authorizer and c.Client in their order, and what it returned
    cfn, cpc, creq, trace, cret

cacheVars == <<accessToken, refreshToken, expiresAt>>
cfgVars == <<clientID, clientSecret, tokenURL, callback, ctor>>
lockVars == <<rlocks, wlock>>
clockVars == <<now, ticks>>
cbVars == <<pendingCb, cbLog>>
writerVars == <<accessWriter, expiryWriter, written, answered, updates>>
callVars == <<op, arg, lv, ret, pre>>
clientVars == <<cfn, cpc, creq, trace, cret>>
vars == <<accessToken, refreshToken, clientID, clientSecret, tokenURL,
          callback, expiresAt, rlocks, wlock, now, ticks, pc, op, arg, lv,
          ret, issued, pendingCb, cbLog, calls, ctor, pre, accessWriter,
          expiryWriter, written, answered, updates, cfn, cpc, creq, trace,
          cret>>

(***************************************************************************)
(* Values.                                                                 *)
(***************************************************************************)
NoResp == [id |-> 0, AccessToken |-> "", RefreshToken |-> "",
           ExpiresIn |-> Int64(0)]
NoArg == [accessToken |-> "", refreshToken |-> ""]
NoPre == [accessToken |-> "", refreshToken |-> "", expiresAt |-> 0,
          clientID |-> "", clientSecret |-> "", tokenURL |-> ""]

\* The locals of a call: refreshToken is the parameter of refreshAccessToken
\* (the local of that name in getValidToken and ForceRefresh), tokenResp the
\* decoded response.  History: nDo, the calls of o.client.Do the call has
\* made, and nNet, those of them that reached the network.
NoLocals == [refreshToken |-> "", tokenResp |-> NoResp, nDo |-> 0, nNet |-> 0]

\* What a call returned: err is the error of ForceRefresh, token the token
\* Add chose and header the request's Authorization values as Add leaves
\* them, access and refresh the values of GetTokens.  History: the goroutine
\* t, the operation, the branch it took (path), its client.Do calls, the
\* refresh token it sent and the response it decoded.
NoRet == [t |-> NoThread, op |-> "none", path |-> "", err |-> "nil",
          token |-> "", header |-> <<>>, access |-> "", refresh |-> "",
          nDo |-> 0, nNet |-> 0, sent |-> "", tokenResp |-> NoResp]

\* Faulty variant of Bearer: the scheme is left out.
BearerBare(token) == token

\* fmt.Sprintf("Bearer %s", token)
Bearer(token) == "Bearer " \o token

\* Faulty variant of HeaderAdd: a request that already carries an
\* Authorization value keeps it.
HeaderKeep(h, v) == IF Len(h) = 0 THEN <<v>> ELSE h

\* http.Header.Add: appends the value to those already under the key.
HeaderAdd(h, v) == Append(h, v)

\* http.Header.Get: the first value under the key, "" when there is none.
HeaderGet(h) == IF Len(h) = 0 THEN "" ELSE h[1]

\* History: the name under which an operation is recorded as the last writer
\* of a field.
WriterInit == "NewAuthorizerV2"
WriterUpdate == "UpdateTokens"
WriterExchange(k) == "exchange" \o ToString(k)

NoPair == <<"-", "-">>

(***************************************************************************)
(* The client library: values.                                             *)
(***************************************************************************)
\* A nil error, and an error made by fmt.Errorf("<msg>: %w", inner): msg is
\* the message prefix and wraps names the error wrapped.
NilError == [msg |-> "", wraps |-> ""]
Errorf(msg, inner) == [msg |-> msg, wraps |-> inner]

\* The sentinel error of a bad argument.
ErrParameter == "ErrParameter"

\* errors.Is(err, target) for the errors above.
ErrorsIs(err, target) == err.wraps = target

\* The argument of a call when none was made, and what a call returns: resp
\* is "nil" or "body" (a decoded response), variant is the pointer returned
\* by SelectBestVariant as an index into its argument (0 is nil).  For a
\* read of a scope group resp is the group.
NoReq == [ctx |-> "nil"]
NoClientRet == [resp |-> "nil", err |-> NilError, variant |-> 0]

(***************************************************************************)
(* NewAuthorizerV2.                                                        *)
(***************************************************************************)
\* Faulty variant of NewAuthorizerV2: the credentials and the endpoint are
\* kept when the refresh token is empty.
NewAuthorizerV2NoClear(a, r, cid, sec, cb, t) ==
    [accessToken |-> a,
     refreshToken |-> r,
     clientID |-> cid,
     clientSecret |-> sec,
     tokenURL |-> TokenURLDefault,
     callback |-> cb,
     expiresAt |-> t + DefaultExpiry]

NewAuthorizerV2(a, r, cid, sec, cb, t) ==
    [accessToken |-> a,
     refreshToken |-> r,
     clientID |-> IF r = "" THEN "" ELSE cid,
     clientSecret |-> IF r = "" THEN "" ELSE sec,
     tokenURL |-> IF r = "" THEN "" ELSE TokenURLDefault,
     callback |-> cb,
     expiresAt |-> t + DefaultExpiry]

Init ==
    /\ now = 0
    /\ ticks = 0
    /\ ctor \in [accessToken : CtorAccess, refreshToken : CtorRefresh,
                 clientID : CtorClientID, clientSecret : CtorClientSecret,
                 callback : BOOLEAN]
    /\ LET o == NewAuthorizerV2(ctor.accessToken, ctor.refreshToken,
                                ctor.clientID, ctor.clientSecret,
                                ctor.callback, now)
       IN /\ accessToken = o.accessToken
          /\ refreshToken = o.refreshToken
          /\ clientID = o.clientID
          /\ clientSecret = o.clientSecret
          /\ tokenURL = o.tokenURL
          /\ callback = o.callback
          /\ expiresAt = o.expiresAt
    /\ rlocks = {}
    /\ wlock = NoThread
    /\ pc = [t \in Threads |-> "idle"]
    /\ op = [t \in Threads |-> "none"]
    /\ arg = [t \in Threads |-> NoArg]
    /\ lv = [t \in Threads |-> NoLocals]
    /\ ret = NoRet
    /\ issued = 0
    /\ pendingCb = {}
    /\ cbLog = <<>>
    /\ calls = 0
    /\ pre = [t \in Threads |-> NoPre]
    /\ accessWriter = WriterInit
    /\ expiryWriter = WriterInit
    /\ written = [k \in 1..MaxIssued |-> NoPair]
    /\ answered = [k \in 1..MaxIssued |-> NoPair]
    /\ updates = 0
    /\ cfn = "none"
    /\ cpc = "idle"
    /\ creq = NoReq
    /\ trace = <<>>
    /\ cret = NoClientRet

(***************************************************************************)
(* sync.RWMutex.  RLock waits while a goroutine holds the exclusive lock;  *)
(* Lock waits while any goroutine holds the lock in either mode.  A call   *)
(* that has to wait is a disabled step.                                    *)
(***************************************************************************)
\* Faulty variants: a read lock that does not wait for the writer, and an
\* exclusive lock that does not wait for the readers.
CanRLockAlways(t) == TRUE
CanLockNoReaders(t) == wlock = NoThread

CanRLock(t) == wlock = NoThread
\* Faulty variant of CanLock: the exclusive lock excludes nobody.
CanLockAlways(t) == TRUE

CanLock(t) == wlock = NoThread /\ rlocks = {}

RLock(t) == /\ CanRLock(t)
            /\ rlocks' = rlocks \cup {t}
            /\ wlock' = wlock

\* Faulty variant of RUnlock: the read lock is kept.
RUnlockKept(t) == /\ rlocks' = rlocks
                  /\ wlock' = wlock

RUnlock(t) == /\ rlocks' = rlocks \ {t}
              /\ wlock' = wlock

Lock(t) == /\ CanLock(t)
           /\ wlock' = t
           /\ rlocks' = rlocks

\* Faulty variant of Unlock: the exclusive lock is kept.
UnlockKept(t) == /\ wlock' = wlock
                 /\ rlocks' = rlocks

Unlock(t) == /\ wlock' = NoThread
             /\ rlocks' = rlocks

(***************************************************************************)
(* Calls and returns.                                                      *)
(***************************************************************************)
\* History: the object as a goroutine finds it on taking the exclusive lock.
CacheNow == [accessToken |-> accessToken, refreshToken |-> refreshToken,
             expiresAt |-> expiresAt, clientID |-> clientID,
             clientSecret |-> clientSecret, tokenURL |-> tokenURL]

\* A goroutine enters a public operation.  The goroutines are
\* interchangeable, so the first call of a behaviour is g1's.
Enter(t, name, a) ==
    /\ pc[t] = "idle"
    /\ calls < MaxCalls
    /\ calls = 0 => t = "g1"
    /\ calls' = calls + 1
    /\ op' = [op EXCEPT ![t] = name]
    /\ arg' = [arg EXCEPT ![t] = a]

\* A goroutine returns from a public operation with the results r; its
\* locals are gone.
Return(t, r) ==
    /\ pc' = [pc EXCEPT ![t] = "idle"]
    /\ op' = [op EXCEPT ![t] = "none"]
    /\ arg' = [arg EXCEPT ![t] = NoArg]
    /\ lv' = [lv EXCEPT ![t] = NoLocals]
    /\ pre' = [pre EXCEPT ![t] = NoPre]
    /\ ret' = [r EXCEPT !.t = t, !.op = op[t]]

Goto(t, label) == pc' = [pc EXCEPT ![t] = label]

\* History carried from the locals of a call into what it returned.
Outcome(t) == [NoRet EXCEPT !.nDo = lv[t].nDo, !.nNet = lv[t].nNet,
                            !.sent = lv[t].refreshToken,
                            !.tokenResp = lv[t].tokenResp]

\* Faulty variant of AddHeader: the token the supplier was built with is
\* attached.
AddHeaderInitial(t, req, token, path) ==
    Return(t, [Outcome(t) EXCEPT !.token = ctor.accessToken,
                                 !.header = HeaderAdd(req, Bearer(ctor.accessToken)),
                                 !.path = path])

\* Add's last statement, req.Header.Add("Authorization", "Bearer "+token),
\* on a request that came with the Authorization values req.  The request
\* is not read before, so its values are drawn in this step.
AddHeader(t, req, token, path) ==
    Return(t, [Outcome(t) EXCEPT !.token = token,
                                 !.header = HeaderAdd(req, Bearer(token)),
                                 !.path = path])

(***************************************************************************)
(* Add, static branch and entry into the refresh branch.                   *)
(***************************************************************************)
\* o.mu.RLock() at the head of Add.
AddCall(t) ==
    /\ Enter(t, "Add", NoArg)
    /\ RLock(t)
    /\ Goto(t, "add_check")
    /\ UNCHANGED <<cacheVars, cfgVars, clientVars, clockVars, issued, cbVars, writerVars,
                   lv, ret, pre>>

\* if o.refreshToken == "" { token := o.accessToken; RUnlock; Header.Add;
\* return }; o.mu.RUnlock()
AddCheck(t, req) ==
    /\ pc[t] = "add_check"
    /\ RUnlock(t)
    /\ IF refreshToken = ""
       THEN AddHeader(t, req, accessToken, "static")
       ELSE Goto(t, "gvt_rlock") /\ UNCHANGED callVars
    /\ UNCHANGED <<cacheVars, cfgVars, clientVars, clockVars, issued, cbVars, writerVars,
                   calls>>

(***************************************************************************)
(* refreshAccessToken, up to the network call.                             *)
(***************************************************************************)
\* Faulty variant of ReturnErr: ForceRefresh drops the error and returns nil.
ReturnErrDropped(t, rt, e, n) ==
    IF op[t] = "Add"
    THEN /\ lv' = [lv EXCEPT ![t].refreshToken = rt, ![t].nDo = @ + n]
         /\ Goto(t, "add_fb_rlock")
         /\ UNCHANGED <<op, arg, ret, pre>>
    ELSE Return(t, [Outcome(t) EXCEPT !.err = NoErr, !.path = "failed",
                                      !.sent = rt, !.nDo = @ + n])

\* Faulty variant of ReturnErr: after a failed refresh Add tries again.
ReturnErrRetry(t, rt, e, n) ==
    IF op[t] = "Add"
    THEN /\ lv' = [lv EXCEPT ![t].refreshToken = rt, ![t].nDo = @ + n]
         /\ Goto(t, "gvt_rlock")
         /\ UNCHANGED <<op, arg, ret, pre>>
    ELSE Return(t, [Outcome(t) EXCEPT !.err = e, !.path = "failed",
                                      !.sent = rt, !.nDo = @ + n])

\* refreshAccessToken returns ("", err) to its caller after n more calls of
\* client.Do: ForceRefresh returns err; Add discards it and goes on to read
\* the cached token.
ReturnErr(t, rt, e, n) ==
    IF op[t] = "Add"
    THEN /\ lv' = [lv EXCEPT ![t].refreshToken = rt, ![t].nDo = @ + n]
         /\ Goto(t, "add_fb_rlock")
         /\ UNCHANGED <<op, arg, ret, pre>>
    ELSE Return(t, [Outcome(t) EXCEPT !.err = e, !.path = "failed",
                                      !.sent = rt, !.nDo = @ + n])

\* Faulty variant of StartExchange: a single-flight gate.  While an exchange
\* of another goroutine is in flight no second one is started.
StartExchangeGated(t, rt) ==
    IF rt = ""
    THEN ReturnErr(t, rt, ErrNoRefreshToken, 0)
    ELSE IF tokenURL = "" \/ \E u \in Threads \ {t} : pc[u] = "ra_net"
    THEN ReturnErr(t, rt, ErrDo, 1)
    ELSE /\ lv' = [lv EXCEPT ![t].refreshToken = rt, ![t].nDo = @ + 1,
                             ![t].nNet = @ + 1]
         /\ Goto(t, "ra_net")
         /\ UNCHANGED <<op, arg, ret, pre>>

\* From the refreshToken == "" test to the call of o.client.Do, with rt the
\* refresh token the caller read.  With an empty o.tokenURL the request has
\* no scheme and Do returns an error without any network traffic.
StartExchange(t, rt) ==
    IF rt = ""
    THEN ReturnErr(t, rt, ErrNoRefreshToken, 0)
    ELSE IF tokenURL = ""
    THEN ReturnErr(t, rt, ErrDo, 1)
    ELSE /\ lv' = [lv EXCEPT ![t].refreshToken = rt, ![t].nDo = @ + 1,
                             ![t].nNet = @ + 1]
         /\ Goto(t, "ra_net")
         /\ UNCHANGED <<op, arg, ret, pre>>

(***************************************************************************)
(* getValidToken.                                                          *)
(***************************************************************************)
GvtRLock(t) ==
    /\ pc[t] = "gvt_rlock"
    /\ RLock(t)
    /\ Goto(t, "gvt_check")
    /\ UNCHANGED <<cacheVars, cfgVars, clientVars, clockVars, issued, cbVars, writerVars,
                   callVars, calls>>

\* Faulty variant of StillValid: the buffer is forgotten.
StillValidNoBuffer(t, e) == t < e

\* Faulty variant of StillValid: the comparison is turned around (After for
\* Before).
StillValidReversed(t, e) == e < t + RefreshBuffer

\* time.Now().Add(5*time.Minute).Before(o.expiresAt)
StillValid(t, e) == t + RefreshBuffer < e

\* The valid branch returns to Add, which adds the header and returns; the
\* stale branch reads o.refreshToken and calls refreshAccessToken.
GvtCheck(t, req) ==
    /\ pc[t] = "gvt_check"
    /\ RUnlock(t)
    /\ IF StillValid(now, expiresAt)
       THEN AddHeader(t, req, accessToken, "valid")
       ELSE StartExchange(t, refreshToken)
    /\ UNCHANGED <<cacheVars, cfgVars, clientVars, clockVars, issued, cbVars, writerVars,
                   calls>>

(***************************************************************************)
(* refreshAccessToken, from the response on.                               *)
(***************************************************************************)
\* The exchange fails: o.client.Do returns an error (transport failure,
\* cancelled or expired context), the status is not 200, or the body does
\* not decode.
ExchangeErrors == {ErrDo, ErrStatus, ErrDecode}

RaNetFail(t, e) ==
    /\ pc[t] = "ra_net"
    /\ ReturnErr(t, lv[t].refreshToken, e, 0)
    /\ UNCHANGED <<cacheVars, cfgVars, clientVars, lockVars, clockVars, issued, cbVars,
                   writerVars, calls>>

\* The endpoint answers 200 with a body that decodes into tokenResp.
RaNetOK(t, a, r, e) ==
    /\ pc[t] = "ra_net"
    /\ issued < MaxIssued
    /\ issued' = issued + 1
    /\ lv' = [lv EXCEPT ![t].tokenResp =
                 [id |-> issued + 1, AccessToken |-> a, RefreshToken |-> r,
                  ExpiresIn |-> e]]
    /\ answered' = [answered EXCEPT ![issued + 1] = <<a, r>>]
    /\ Goto(t, "ra_lock")
    /\ UNCHANGED <<cacheVars, cfgVars, clientVars, lockVars, clockVars, cbVars,
                   accessWriter, expiryWriter, written, updates, op, arg, ret,
                   calls, pre>>

\* o.mu.Lock(); o.accessToken = tokenResp.AccessToken
RaLock(t) ==
    /\ pc[t] = "ra_lock"
    /\ Lock(t)
    /\ pre' = [pre EXCEPT ![t] = CacheNow]
    /\ accessToken' = lv[t].tokenResp.AccessToken
    /\ accessWriter' = WriterExchange(lv[t].tokenResp.id)
    /\ Goto(t, "ra_w2")
    /\ UNCHANGED <<refreshToken, expiresAt, cfgVars, clientVars, clockVars, issued, cbVars,
                   expiryWriter, written, answered, updates, op, arg, lv,
                   ret, calls>>

\* Faulty variant of NewRefreshToken: the response's refresh token is stored
\* even when it is empty.
NewRefreshTokenAlways(resp, old) == resp.RefreshToken

\* if tokenResp.RefreshToken != "" { o.refreshToken = tokenResp.RefreshToken }
NewRefreshToken(resp, old) ==
    IF resp.RefreshToken # "" THEN resp.RefreshToken ELSE old

RaWriteRefresh(t) ==
    /\ pc[t] = "ra_w2"
    /\ refreshToken' = NewRefreshToken(lv[t].tokenResp, refreshToken)
    /\ Goto(t, "ra_w3")
    /\ UNCHANGED <<accessToken, expiresAt, cfgVars, clientVars, lockVars, clockVars,
                   issued, cbVars, writerVars, callVars, calls>>

\* if tokenResp.ExpiresIn > 0 {
\*     o.expiresAt = time.Now().Add(time.Duration(tokenResp.ExpiresIn) * time.Second)
\* } else { o.expiresAt = time.Now().Add(2 * time.Hour) }
NewExpiry(resp, t) ==
    IF Positive64(resp.ExpiresIn)
    THEN t + ExpiresInSeconds[CHOOSE i \in DOMAIN ExpiresInValues :
                                ExpiresInValues[i] = resp.ExpiresIn]
    ELSE t + DefaultExpiry

\* Faulty variant of Spawn: the callback goroutine is never started.
SpawnDropped(id, newAccessToken, newRefreshToken) == pendingCb' = pendingCb

\* Faulty variant of Spawn: the two arguments of the callback are swapped.
SpawnSwapped(id, newAccessToken, newRefreshToken) ==
    IF callback
    THEN pendingCb' = pendingCb \cup
             {[id |-> id, accessToken |-> newRefreshToken,
               refreshToken |-> newAccessToken]}
    ELSE pendingCb' = pendingCb

\* if o.callback != nil { go o.callback(newAccessToken, newRefreshToken) }
Spawn(id, newAccessToken, newRefreshToken) ==
    IF callback
    THEN pendingCb' = pendingCb \cup
             {[id |-> id, accessToken |-> newAccessToken,
               refreshToken |-> newRefreshToken]}
    ELSE pendingCb' = pendingCb

\* The expiry is written, newAccessToken and newRefreshToken are read and
\* the lock is released; then the callback goroutine is started and
\* refreshAccessToken returns (newAccessToken, nil).  In Add the header is
\* added next; ForceRefresh returns nil.
RaWriteExpiry(t, req) ==
    /\ pc[t] = "ra_w3"
    /\ expiresAt' = NewExpiry(lv[t].tokenResp, now)
    /\ expiryWriter' = WriterExchange(lv[t].tokenResp.id)
    /\ written' = [written EXCEPT ![lv[t].tokenResp.id] =
                      <<accessToken, refreshToken>>]
    /\ Unlock(t)
    /\ Spawn(lv[t].tokenResp.id, accessToken, refreshToken)
    /\ IF op[t] = "Add"
       THEN AddHeader(t, req, accessToken, "refreshed")
       ELSE Return(t, [Outcome(t) EXCEPT !.path = "refreshed"])
    /\ UNCHANGED <<accessToken, refreshToken, cfgVars, clientVars, clockVars, issued,
                   cbLog, accessWriter, answered, updates, calls>>

\* The callback goroutine runs.
CallbackRun(c) ==
    /\ c \in pendingCb
    /\ pendingCb' = pendingCb \ {c}
    /\ cbLog' = Append(cbLog, c)
    /\ UNCHANGED <<cacheVars, cfgVars, clientVars, lockVars, clockVars, issued,
                   writerVars, pc, callVars, calls>>

(***************************************************************************)
(* Add, after getValidToken returned an error.                             *)
(***************************************************************************)
AddFallbackRLock(t) ==
    /\ pc[t] = "add_fb_rlock"
    /\ RLock(t)
    /\ Goto(t, "add_fb_read")
    /\ UNCHANGED <<cacheVars, cfgVars, clientVars, clockVars, issued, cbVars, writerVars,
                   callVars, calls>>

\* Faulty variant of AddFallbackRead: after a failed refresh Add returns
\* without adding a header.
AddFallbackReadNone(t, req) ==
    /\ pc[t] = "add_fb_read"
    /\ RUnlock(t)
    /\ Return(t, [Outcome(t) EXCEPT !.header = req, !.path = "fallback"])
    /\ UNCHANGED <<cacheVars, cfgVars, clientVars, clockVars, issued, cbVars, writerVars,
                   calls>>

\* token = o.accessToken; o.mu.RUnlock(); req.Header.Add(...)
AddFallbackRead(t, req) ==
    /\ pc[t] = "add_fb_read"
    /\ RUnlock(t)
    /\ AddHeader(t, req, accessToken, "fallback")
    /\ UNCHANGED <<cacheVars, cfgVars, clientVars, clockVars, issued, cbVars, writerVars,
                   calls>>

(***************************************************************************)
(* ForceRefresh.                                                           *)
(***************************************************************************)
ForceRefreshCall(t) ==
    /\ Enter(t, "ForceRefresh", NoArg)
    /\ RLock(t)
    /\ Goto(t, "fr_read")
    /\ UNCHANGED <<cacheVars, cfgVars, clientVars, clockVars, issued, cbVars, writerVars,
                   lv, ret, pre>>

\* Faulty variant of ForceRefreshRead: a token that is still valid is not
\* refreshed.
ForceRefreshReadLazy(t) ==
    /\ pc[t] = "fr_read"
    /\ RUnlock(t)
    /\ IF refreshToken = ""
       THEN Return(t, [Outcome(t) EXCEPT !.err = ErrNoRefreshToken,
                                         !.path = "norefresh"])
       ELSE IF StillValid(now, expiresAt)
       THEN Return(t, [Outcome(t) EXCEPT !.path = "valid"])
       ELSE StartExchange(t, refreshToken)
    /\ UNCHANGED <<cacheVars, cfgVars, clientVars, clockVars, issued, cbVars, writerVars,
                   calls>>

\* Faulty variant of ForceRefreshRead: without a refresh token it returns nil.
ForceRefreshReadSilent(t) ==
    /\ pc[t] = "fr_read"
    /\ RUnlock(t)
    /\ IF refreshToken = ""
       THEN Return(t, [Outcome(t) EXCEPT !.path = "norefresh"])
       ELSE StartExchange(t, refreshToken)
    /\ UNCHANGED <<cacheVars, cfgVars, clientVars, clockVars, issued, cbVars, writerVars,
                   calls>>

\* refreshToken := o.refreshToken; RUnlock; if refreshToken == "" { return
\* the error }; otherwise refreshAccessToken is called.
ForceRefreshRead(t) ==
    /\ pc[t] = "fr_read"
    /\ RUnlock(t)
    /\ IF refreshToken = ""
       THEN Return(t, [Outcome(t) EXCEPT !.err = ErrNoRefreshToken,
                                         !.path = "norefresh"])
       ELSE StartExchange(t, refreshToken)
    /\ UNCHANGED <<cacheVars, cfgVars, clientVars, clockVars, issued, cbVars, writerVars,
                   calls>>

(***************************************************************************)
(* UpdateTokens.                                                           *)
(***************************************************************************)
\* Faulty variant of Updated: an empty argument overwrites the field.
UpdatedAlways(argument, old) == argument

\* The value UpdateTokens leaves in a field given the argument for it.
Updated(argument, old) == IF argument # "" THEN argument ELSE old

\* Faulty variant of UpdateTokensCall: a new access token comes with a new
\* expiry estimate.
UpdateTokensCallFresh(t, a, r) ==
    /\ Enter(t, "UpdateTokens", [accessToken |-> a, refreshToken |-> r])
    /\ Lock(t)
    /\ pre' = [pre EXCEPT ![t] = CacheNow]
    /\ accessToken' = Updated(a, accessToken)
    /\ accessWriter' = IF a # "" THEN WriterUpdate ELSE accessWriter
    /\ expiresAt' = IF a # "" THEN now + DefaultExpiry ELSE expiresAt
    /\ updates' = updates + 1
    /\ Goto(t, "ut_w2")
    /\ UNCHANGED <<refreshToken, cfgVars, clientVars, clockVars, issued, cbVars,
                   expiryWriter, written, answered, lv, ret>>

\* o.mu.Lock(); defer o.mu.Unlock();
\* if accessToken != "" { o.accessToken = accessToken }
UpdateTokensCall(t, a, r) ==
    /\ Enter(t, "UpdateTokens", [accessToken |-> a, refreshToken |-> r])
    /\ Lock(t)
    /\ pre' = [pre EXCEPT ![t] = CacheNow]
    /\ accessToken' = Updated(a, accessToken)
    /\ accessWriter' = IF a # "" THEN WriterUpdate ELSE accessWriter
    /\ updates' = updates + 1
    /\ Goto(t, "ut_w2")
    /\ UNCHANGED <<refreshToken, expiresAt, cfgVars, clientVars, clockVars, issued, cbVars,
                   expiryWriter, written, answered, lv, ret>>

\* if refreshToken != "" { o.refreshToken = refreshToken }; the deferred
\* o.mu.Unlock() runs as the function returns.
UpdateTokensRefresh(t) ==
    /\ pc[t] = "ut_w2"
    /\ refreshToken' = Updated(arg[t].refreshToken, refreshToken)
    /\ Unlock(t)
    /\ Return(t, [Outcome(t) EXCEPT !.path = "updated"])
    /\ UNCHANGED <<accessToken, expiresAt, cfgVars, clientVars, clockVars, issued, cbVars,
                   writerVars, calls>>

(***************************************************************************)
(* GetTokens.                                                              *)
(***************************************************************************)
\* o.mu.RLock(); defer o.mu.RUnlock()
GetTokensCall(t) ==
    /\ Enter(t, "GetTokens", NoArg)
    /\ RLock(t)
    /\ Goto(t, "gt_read")
    /\ UNCHANGED <<cacheVars, cfgVars, clientVars, clockVars, issued, cbVars, writerVars,
                   lv, ret, pre>>

\* Faulty variant of GetTokensRead: the two results are returned in the wrong
\* order.
GetTokensReadSwapped(t) ==
    /\ pc[t] = "gt_read"
    /\ RUnlock(t)
    /\ Return(t, [Outcome(t) EXCEPT !.access = refreshToken,
                                    !.refresh = accessToken,
                                    !.path = "read"])
    /\ UNCHANGED <<cacheVars, cfgVars, clientVars, clockVars, issued, cbVars, writerVars,
                   calls>>

\* return o.accessToken, o.refreshToken
GetTokensRead(t) ==
    /\ pc[t] = "gt_read"
    /\ RUnlock(t)
    /\ Return(t, [Outcome(t) EXCEPT !.access = accessToken,
                                    !.refresh = refreshToken,
                                    !.path = "read"])
    /\ UNCHANGED <<cacheVars, cfgVars, clientVars, clockVars, issued, cbVars, writerVars,
                   calls>>

(***************************************************************************)
(* The clock.                                                              *)
(***************************************************************************)
Tick(d) ==
    /\ ticks < MaxTicks
    /\ ticks' = ticks + 1
    /\ now' = now + d
    /\ UNCHANGED <<cacheVars, cfgVars, clientVars, lockVars, issued, cbVars, writerVars,
                   pc, callVars, calls>>

(***************************************************************************)
(* The specification.                                                      *)
(***************************************************************************)
\* The steps of the goroutines that call the public operations.
GoroutineNext ==
    \/ \E t \in Threads : AddCall(t)
    \/ \E t \in Threads : \E req \in ReqHeaders : AddCheck(t, req)
    \/ \E t \in Threads : GvtRLock(t)
    \/ \E t \in Threads : \E req \in ReqHeaders : GvtCheck(t, req)
    \/ \E t \in Threads : \E e \in ExchangeErrors : RaNetFail(t, e)
    \/ \E t \in Threads : \E b \in Responses(issued + 1) :
         RaNetOK(t, b[1], b[2], b[3])
    \/ \E t \in Threads : RaLock(t)
    \/ \E t \in Threads : RaWriteRefresh(t)
    \/ \E t \in Threads : \E req \in ReqHeaders : RaWriteExpiry(t, req)
    \/ \E t \in Threads : AddFallbackRLock(t)
    \/ \E t \in Threads : \E req \in ReqHeaders : AddFallbackRead(t, req)
    \/ \E t \in Threads : ForceRefreshCall(t)
    \/ \E t \in Threads : ForceRefreshRead(t)
    \/ \E t \in Threads : \E a \in UpdAccess : \E r \in UpdRefresh :
         UpdateTokensCall(t, a, r)
    \/ \E t \in Threads : UpdateTokensRefresh(t)
    \/ \E t \in Threads : GetTokensCall(t)
    \/ \E t \in Threads : GetTokensRead(t)
    \/ \E d \in TickSteps : Tick(d)

Next ==
    \/ GoroutineNext
    \/ \E c \in pendingCb : CallbackRun(c)

Spec == Init /\ [][Next]_vars

\* The Go scheduler runs every goroutine that can run: a goroutine started
\* for the callback is run eventually.
FairSpec == Spec /\ WF_vars(\E c \in pendingCb : CallbackRun(c))

(***************************************************************************)
(* A callback that calls the supplier it was given to: the goroutine       *)
(* started by `go o.callback(newAccessToken, newRefreshToken)` calls       *)
(* GetTokens, or UpdateTokens with the pair it received, and returns.  The *)
(* goroutine of exchange k is known to o.mu as CbName(k); it is under way  *)
(* while its record is in pendingCb, and inside the operation while it     *)
(* holds the lock.                                                         *)
(***************************************************************************)
CbName(c) == "cb" \o ToString(c.id)

CbHolds(c) == wlock = CbName(c) \/ CbName(c) \in rlocks

\* The callback returns: the invocation is over.
CbReturn(c) ==
    /\ pendingCb' = pendingCb \ {c}
    /\ cbLog' = Append(cbLog, c)

\* GetTokens in the callback: o.mu.RLock(); defer o.mu.RUnlock()
CallbackGetTokensCall(c) ==
    /\ c \in pendingCb
    /\ ~CbHolds(c)
    /\ RLock(CbName(c))
    /\ UNCHANGED <<cacheVars, cfgVars, clientVars, clockVars, issued, cbVars,
                   writerVars, pc, callVars, calls>>

\* return o.accessToken, o.refreshToken
CallbackGetTokensRead(c) ==
    /\ c \in pendingCb
    /\ CbName(c) \in rlocks
    /\ RUnlock(CbName(c))
    /\ CbReturn(c)
    /\ UNCHANGED <<cacheVars, cfgVars, clientVars, clockVars, issued,
                   writerVars, pc, callVars, calls>>

\* UpdateTokens in the callback: o.mu.Lock(); defer o.mu.Unlock();
\* if accessToken != "" { o.accessToken = accessToken }
CallbackUpdateTokensCall(c) ==
    /\ c \in pendingCb
    /\ ~CbHolds(c)
    /\ Lock(CbName(c))
    /\ accessToken' = Updated(c.accessToken, accessToken)
    /\ accessWriter' = IF c.accessToken # "" THEN WriterUpdate
                                              ELSE accessWriter
    /\ updates' = updates + 1
    /\ UNCHANGED <<refreshToken, expiresAt, cfgVars, clientVars, clockVars,
                   issued, cbVars, expiryWriter, written, answered, pc,
                   callVars, calls>>

\* if refreshToken != "" { o.refreshToken = refreshToken }; the deferred
\* o.mu.Unlock() runs as UpdateTokens returns.
CallbackUpdateTokensRefresh(c) ==
    /\ c \in pendingCb
    /\ wlock = CbName(c)
    /\ refreshToken' = Updated(c.refreshToken, refreshToken)
    /\ Unlock(CbName(c))
    /\ CbReturn(c)
    /\ UNCHANGED <<accessToken, expiresAt, cfgVars, clientVars, clockVars,
                   issued, writerVars, pc, callVars, calls>>

CallbackNext(c) ==
    \/ CallbackGetTokensCall(c)
    \/ CallbackGetTokensRead(c)
    \/ CallbackUpdateTokensCall(c)
    \/ CallbackUpdateTokensRefresh(c)

ReentrantNext ==
    \/ GoroutineNext
    \/ \E c \in pendingCb : CallbackNext(c)

\* What a goroutine does once it is inside a public operation; the answer of
\* the token endpoint, a failure or a 200, is one of these steps.
Continue(t) ==
    \/ \E req \in ReqHeaders : AddCheck(t, req)
    \/ GvtRLock(t)
    \/ \E req \in ReqHeaders : GvtCheck(t, req)
    \/ \E e \in ExchangeErrors : RaNetFail(t, e)
    \/ \E b \in Responses(issued + 1) : RaNetOK(t, b[1], b[2], b[3])
    \/ RaLock(t)
    \/ RaWriteRefresh(t)
    \/ \E req \in ReqHeaders : RaWriteExpiry(t, req)
    \/ AddFallbackRLock(t)
    \/ \E req \in ReqHeaders : AddFallbackRead(t, req)
    \/ ForceRefreshRead(t)
    \/ UpdateTokensRefresh(t)
    \/ GetTokensRead(t)

\* The Go scheduler runs every goroutine that can run, the callers' and the
\* callbacks', and every request sent to the token endpoint is answered or
\* fails.
ReentrantSpec ==
    /\ Init
    /\ [][ReentrantNext]_vars
    /\ \A t \in Threads : WF_vars(Continue(t))
    /\ \A k \in 1..MaxIssued :
         WF_vars(\E c \in pendingCb : c.id = k /\ CallbackNext(c))

(***************************************************************************)
(* The OAuth2 scopes and the group of the read-only ones.                  *)
(***************************************************************************)
ScopeTweetRead == "tweet.read"
ScopeUsersRead == "users.read"
ScopeFollowsRead == "follows.read"
ScopeLikeRead == "like.read"
ScopeListRead == "list.read"
ScopeBlockRead == "block.read"
ScopeMuteRead == "mute.read"
ScopeSpaceRead == "space.read"
ScopeBookmarkRead == "bookmark.read"
ScopeDMRead == "dm.read"

ReadOnlyScopes ==
    <<ScopeTweetRead,
      ScopeUsersRead,
      ScopeFollowsRead,
      ScopeLikeRead,
      ScopeListRead,
      ScopeBlockRead,
      ScopeMuteRead,
      ScopeSpaceRead,
      ScopeBookmarkRead,
      ScopeDMRead>>

\* contains(slice, item) of the tests: a linear search.
RECURSIVE contains(_, _)
contains(slice, item) ==
    IF Len(slice) = 0 THEN FALSE
    ELSE IF Head(slice) = item THEN TRUE
    ELSE contains(Tail(slice), item)

\* The scopes TestReadOnlyScopes accepts as read scopes.
TestReadScopes ==
    <<ScopeTweetRead, ScopeUsersRead, ScopeFollowsRead, ScopeLikeRead,
      ScopeListRead, ScopeBlockRead, ScopeMuteRead, ScopeSpaceRead,
      ScopeBookmarkRead>>

\* TestReadOnlyScopes: the elements of the group for which the test reports
\* an error.
TestReadOnlyScopes(group) ==
    {i \in DOMAIN group : ~contains(TestReadScopes, group[i])}

(***************************************************************************)
(* The Client.  A call of CreateDMConversation or UploadMedia validates    *)
(* its request, builds the HTTP request, hands it to c.Authorizer.Add and  *)
(* then to c.Client.Do; the Authorizer and the transport are interfaces,   *)
(* and trace records the calls made on them.  The server is the            *)
(* environment: the transport fails or gives a reply of its choice.        *)
(***************************************************************************)
authVars == <<cacheVars, cfgVars, lockVars, clockVars, cbVars, writerVars,
              callVars, pc, issued, calls>>

\* The contexts handed to a call: http.NewRequestWithContext refuses a nil
\* one.
Contexts == {"nil", "background"}

\* The replies of the transport: Do fails, or gives a response with a
\* status and a body that the decoder accepts or not.
StatusOK == 200
StatusCreated == 201
StatusBadRequest == 400
Replies == [fail : BOOLEAN,
            StatusCode : {StatusOK, StatusCreated, StatusBadRequest},
            decodes : BOOLEAN]

\* http.NewRequestWithContext, for the URL of an endpoint of the client.
NewRequestWithContext(ctx) ==
    IF ctx = "nil" THEN Errorf("net/http: nil Context", "") ELSE NilError

\* The errors made of a response whose status is not the expected one.
HTTPError == Errorf("HTTPError", "")
ErrorResponse == Errorf("ErrorResponse", "")

ClientReturn(resp, err) ==
    /\ cpc' = "idle"
    /\ cret' = [resp |-> resp, err |-> err, variant |-> 0]

(***************************************************************************)
(* CreateDMConversation.                                                   *)
(***************************************************************************)
CreateDMConversationRequests ==
    [ctx : Contexts,
     ConversationType : {"", "Group"},
     ParticipantIDs : {<<>>, <<"u1">>, <<"u1", "u2">>},
     Text : {"", "hi"},
     MediaID : {"", "m1"}]

\* Faulty variant of CreateDMConversationRequest_validate: a request needs
\* both a text and a media ID.
CreateDMConversationRequest_validateBoth(r) ==
    IF Len(r.ParticipantIDs) = 0
    THEN Errorf("create dm conversation: participant IDs are required",
                ErrParameter)
    ELSE IF r.Text = "" \/ r.MediaID = ""
    THEN Errorf("create dm conversation: either text or media ID is required",
                ErrParameter)
    ELSE NilError

CreateDMConversationRequest_validate(r) ==
    IF Len(r.ParticipantIDs) = 0
    THEN Errorf("create dm conversation: participant IDs are required",
                ErrParameter)
    ELSE IF r.Text = "" /\ r.MediaID = ""
    THEN Errorf("create dm conversation: either text or media ID is required",
                ErrParameter)
    ELSE NilError

\* From the call to the point before c.Authorizer.Add.  json.Marshal does
\* not fail on a request of strings.
CreateDMConversationCall(req) ==
    /\ cfn = "none"
    /\ cpc = "idle"
    /\ cfn' = "CreateDMConversation"
    /\ creq' = req
    /\ trace' = <<>>
    /\ LET err == CreateDMConversationRequest_validate(req)
           err2 == NewRequestWithContext(req.ctx)
       IN IF err # NilError
          THEN ClientReturn("nil", err)
          ELSE IF err2 # NilError
          THEN ClientReturn("nil",
                            Errorf("create dm conversation request", "net/http"))
          ELSE /\ cpc' = "dm_add"
               /\ cret' = NoClientRet
    /\ UNCHANGED authVars

\* c.Authorizer.Add(httpReq)
CreateDMConversationAdd ==
    /\ cfn = "CreateDMConversation"
    /\ cpc = "dm_add"
    /\ trace' = Append(trace, "Add")
    /\ cpc' = "dm_do"
    /\ UNCHANGED <<authVars, cfn, creq, cret>>

\* c.Client.Do(httpReq) and the handling of its response.
CreateDMConversationDo(reply) ==
    /\ cfn = "CreateDMConversation"
    /\ cpc = "dm_do"
    /\ trace' = Append(trace, "Do")
    /\ IF reply.fail
       THEN ClientReturn("nil",
                         Errorf("create dm conversation response", "transport"))
       ELSE IF reply.StatusCode # StatusCreated
       THEN IF ~reply.decodes
            THEN ClientReturn("nil", HTTPError)
            ELSE ClientReturn("nil", ErrorResponse)
       ELSE IF ~reply.decodes
       THEN ClientReturn("nil",
                         Errorf("create dm conversation decode", "json"))
       ELSE ClientReturn("body", NilError)
    /\ UNCHANGED <<authVars, cfn, creq>>

(***************************************************************************)
(* UploadMedia.  Media is an io.Reader: nil, one that can be read to its   *)
(* end, or one whose Read fails.                                           *)
(***************************************************************************)
MediaUploadRequests ==
    [ctx : Contexts,
     Media : {"nil", "reader", "failing reader"},
     MediaCategory : {"", "tweet_image"},
     AdditionalOwners : {<<>>, <<"u1">>},
     MediaType : {"", "image/png"},
     Shared : BOOLEAN]

\* Faulty variant of MediaUploadRequest_validate: the media type is required
\* as well.
MediaUploadRequest_validateType(r) ==
    IF r.Media = "nil"
    THEN Errorf("media upload: media is required", ErrParameter)
    ELSE IF r.MediaCategory = "" \/ r.MediaType = ""
    THEN Errorf("media upload: media_category is required", ErrParameter)
    ELSE NilError

MediaUploadRequest_validate(r) ==
    IF r.Media = "nil"
    THEN Errorf("media upload: media is required", ErrParameter)
    ELSE IF r.MediaCategory = ""
    THEN Errorf("media upload: media_category is required", ErrParameter)
    ELSE NilError

\* The multipart form is written to a buffer in memory: of its steps only
\* the copy of the media can fail.
createMediaUploadForm(req) ==
    IF req.Media = "failing reader"
    THEN Errorf("copy media to form", "read")
    ELSE NilError

\* From the call to the point before c.Authorizer.Add.
UploadMediaCall(req) ==
    /\ cfn = "none"
    /\ cpc = "idle"
    /\ cfn' = "UploadMedia"
    /\ creq' = req
    /\ trace' = <<>>
    /\ LET err == MediaUploadRequest_validate(req)
           err2 == createMediaUploadForm(req)
           err3 == NewRequestWithContext(req.ctx)
       IN IF err # NilError
          THEN ClientReturn("nil", err)
          ELSE IF err2 # NilError
          THEN ClientReturn("nil",
                            Errorf("media upload form creation error",
                                   err2.wraps))
          ELSE IF err3 # NilError
          THEN ClientReturn("nil", Errorf("media upload request", "net/http"))
          ELSE /\ cpc' = "um_add"
               /\ cret' = NoClientRet
    /\ UNCHANGED authVars

\* c.Authorizer.Add(httpReq)
UploadMediaAdd ==
    /\ cfn = "UploadMedia"
    /\ cpc = "um_add"
    /\ trace' = Append(trace, "Add")
    /\ cpc' = "um_do"
    /\ UNCHANGED <<authVars, cfn, creq, cret>>

\* c.Client.Do(httpReq) and the handling of its response.
UploadMediaDo(reply) ==
    /\ cfn = "UploadMedia"
    /\ cpc = "um_do"
    /\ trace' = Append(trace, "Do")
    /\ IF reply.fail
       THEN ClientReturn("nil", Errorf("media upload response", "transport"))
       ELSE IF reply.StatusCode # StatusOK
       THEN IF ~reply.decodes
            THEN ClientReturn("nil", HTTPError)
            ELSE ClientReturn("nil", ErrorResponse)
       ELSE IF ~reply.decodes
       THEN ClientReturn("nil", Errorf("media upload decode", "json"))
       ELSE ClientReturn("body", NilError)
    /\ UNCHANGED <<authVars, cfn, creq>>

(***************************************************************************)
(* SelectBestVariant.  A list of variants is a sequence of records; the    *)
(* pointer to an element is its index, and 0 is nil.                       *)
(***************************************************************************)
MaxVariants == 3  \* length of the list handed to SelectBestVariant

ContentTypeMP4 == "video/mp4"
ContentTypeHLS == "application/x-mpegURL"
ContentTypes == {ContentTypeMP4, ContentTypeHLS, "video/webm"}
BitRates == {-1, 0, 1}
MediaVariantObj == [ContentType : ContentTypes, BitRate : BitRates]

VariantLists ==
    UNION {[1..n -> MediaVariantObj] : n \in 0..MaxVariants}

\* The loop of SelectBestVariant from element i on: the locals bestVariant
\* and bestBitRate when the loop ends.
RECURSIVE SelectLoop(_, _, _, _)
SelectLoop(variants, i, bestVariant, bestBitRate) ==
    IF i > Len(variants)
    THEN [bestVariant |-> bestVariant, bestBitRate |-> bestBitRate]
    ELSE LET variant == variants[i]
         IN IF variant.ContentType = ContentTypeHLS
            THEN SelectLoop(variants, i + 1, bestVariant, bestBitRate)
            ELSE IF /\ variant.ContentType = ContentTypeMP4
                    /\ (bestVariant = 0 \/ variant.BitRate > bestBitRate)
            THEN SelectLoop(variants, i + 1, i, variant.BitRate)
            ELSE SelectLoop(variants, i + 1, bestVariant, bestBitRate)

\* Faulty variant of SelectBestVariant: no fallback to the first variant.
SelectBestVariantNoFallback(variants) ==
    IF Len(variants) = 0
    THEN 0
    ELSE SelectLoop(variants, 1, 0, 0).bestVariant

SelectBestVariant(variants) ==
    IF Len(variants) = 0
    THEN 0
    ELSE LET bestVariant == SelectLoop(variants, 1, 0, 0).bestVariant
         IN IF bestVariant = 0 THEN 1 ELSE bestVariant

SelectBestVariantCall(variants) ==
    /\ cfn = "none"
    /\ cpc = "idle"
    /\ cfn' = "SelectBestVariant"
    /\ creq' = variants
    /\ trace' = <<>>
    /\ cpc' = "idle"
    /\ cret' = [resp |-> "nil", err |-> NilError,
                variant |-> SelectBestVariant(variants)]
    /\ UNCHANGED authVars

(***************************************************************************)
(* A caller reads the package variable ReadOnlyScopes.                     *)
(***************************************************************************)
ReadOnlyScopesRead ==
    /\ cfn = "none"
    /\ cpc = "idle"
    /\ cfn' = "ReadOnlyScopes"
    /\ trace' = <<>>
    /\ cpc' = "idle"
    /\ cret' = [resp |-> ReadOnlyScopes, err |-> NilError, variant |-> 0]
    /\ UNCHANGED <<authVars, creq>>

(***************************************************************************)
(* The specification of the client library: a call on a Client, beside an  *)
(* authorizer that is not called.  A call keeps no state in the Client, so *)
(* a behaviour makes one call, with any argument.                          *)
(***************************************************************************)
ClientNext ==
    \/ \E req \in CreateDMConversationRequests : CreateDMConversationCall(req)
    \/ CreateDMConversationAdd
    \/ \E reply \in Replies : CreateDMConversationDo(reply)
    \/ \E req \in MediaUploadRequests : UploadMediaCall(req)
    \/ UploadMediaAdd
    \/ \E reply \in Replies : UploadMediaDo(reply)
    \/ \E variants \in VariantLists : SelectBestVariantCall(variants)
    \/ ReadOnlyScopesRead

ClientSpec == Init /\ [][ClientNext]_vars

(***************************************************************************)
(* Properties.  A property of what a call does is stated on the step that  *)
(* does it: Step(t) is a step of goroutine t, Returns(t, name) the step in *)
(* which t returns from the operation name, and ret' what it returns.      *)
(***************************************************************************)
Step(t) == pc'[t] # pc[t]
Returns(t, name) == Step(t) /\ pc'[t] = "idle" /\ op[t] = name

\* The value Add appended to the request's Authorization values.
Attached(h) == h[Len(h)]

\* The supplier was constructed with an empty refresh token.
ConstructedStatic == ctor.refreshToken = ""

C2_NeverWithinBuffer ==
    [][\A t \in Threads :
         Returns(t, "Add") /\ refreshToken # "" =>
           now + RefreshBuffer < expiresAt']_vars

\* C2 amended: in refresh mode, when Add attaches the cached token without
\* attempting an exchange, the expiry recorded for it is more than the
\* buffer after the time of the validity check; it is the cached token.
C2_ValidPathOutsideBuffer ==
    [][\A t \in Threads :
         Returns(t, "Add") /\ refreshToken # "" /\ ret'.nDo = 0 =>
           /\ now + RefreshBuffer < expiresAt
           /\ ret'.token = accessToken]_vars

\* Add attached the cached token one second before it turned stale.
C2_Witness ==
    /\ ret.op = "Add"
    /\ ret.path = "valid"
    /\ ret.token = accessToken
    /\ refreshToken # ""
    /\ now + RefreshBuffer + 1 = expiresAt

\* C3: when the Add or ForceRefresh call whose exchange succeeded returns,
\* the cache holds the access token of the response and the refresh token of
\* the response if that is not empty, otherwise the refresh token the cache
\* held when the call took the lock; GetTokens returns the pair the cache
\* holds.
C3_ExchangeResult ==
    [][\A t \in Threads :
         /\ Step(t) /\ pc[t] = "ra_w3" =>
              /\ pc'[t] = "idle"
              /\ ret'.op \in {"Add", "ForceRefresh"}
              /\ ret'.err = NoErr
              /\ accessToken' = lv[t].tokenResp.AccessToken
              /\ refreshToken' = IF lv[t].tokenResp.RefreshToken # ""
                                 THEN lv[t].tokenResp.RefreshToken
                                 ELSE pre[t].refreshToken
         /\ Returns(t, "GetTokens") =>
              /\ ret'.access = accessToken
              /\ ret'.refresh = refreshToken]_vars

\* After an exchange whose response had no refresh token, GetTokens returned
\* the response's access token and the refresh token of the construction.
C3_Witness ==
    /\ ret.op = "GetTokens"
    /\ issued = 1
    /\ accessWriter = WriterExchange(1)
    /\ expiryWriter = WriterExchange(1)
    /\ ret.access = IssuedAccess(1)
    /\ ret.refresh = ctor.refreshToken
    /\ ctor.refreshToken # ""

\* A step in which the exchange of goroutine t fails: client.Do returns an
\* error, the status is not 200 or the body does not decode.
ExchangeFails(t) ==
    /\ Step(t)
    /\ \/ pc[t] = "ra_net" /\ pc'[t] # "ra_lock"
       \/ /\ pc[t] \in {"gvt_check", "fr_read"}
          /\ refreshToken # ""
          /\ tokenURL = ""
          /\ pc[t] = "fr_read" \/ ~StillValid(now, expiresAt)

\* C4: from the start of an exchange to its failure the call writes none of
\* accessToken, refreshToken and expiresAt and starts no callback, and
\* ForceRefresh returns the failure as its error.
C4_FailedExchange ==
    [][\A t \in Threads :
         /\ Step(t) /\ pc'[t] = "ra_net" => UNCHANGED <<cacheVars, cbVars>>
         /\ ExchangeFails(t) =>
              /\ UNCHANGED <<cacheVars, cbVars>>
              /\ op[t] = "ForceRefresh" =>
                   /\ pc'[t] = "idle"
                   /\ ret'.op = "ForceRefresh"
                   /\ ret'.err \in ExchangeErrors
              /\ op[t] = "Add" => pc'[t] = "add_fb_rlock"]_vars

\* ForceRefresh returned the error of an exchange that had reached the
\* network, and the cache is as constructed.
C4_Witness ==
    /\ ret.op = "ForceRefresh"
    /\ ret.err = ErrStatus
    /\ ret.nNet = 1
    /\ accessToken = ctor.accessToken
    /\ refreshToken = ctor.refreshToken
    /\ expiresAt = DefaultExpiry
    /\ pendingCb = {}
    /\ cbLog = <<>>

\* C5: Add returns no error and every Add ends with a bearer value appended
\* to the request; after a failed exchange Add goes on to the fallback read
\* and appends the access token cached at that read.
C5_AddAlwaysAttaches ==
    [][\A t \in Threads :
         /\ Returns(t, "Add") =>
              /\ ret'.err = NoErr
              /\ Len(ret'.header) > 0
              /\ Attached(ret'.header) = Bearer(ret'.token)
         /\ Step(t) /\ pc[t] = "add_fb_read" =>
              /\ Returns(t, "Add")
              /\ ret'.token = accessToken
         /\ ExchangeFails(t) /\ op[t] = "Add" => pc'[t] = "add_fb_rlock"]_vars

\* Add's exchange failed on the network and Add attached the stale token of
\* the construction.
C5_Witness ==
    /\ ret.op = "Add"
    /\ ret.path = "fallback"
    /\ ret.nNet = 1
    /\ ret.header = <<Bearer(ctor.accessToken)>>
    /\ ~StillValid(now, expiresAt)

\* C6: ForceRefresh, reading an empty refresh token, returns "no refresh
\* token available", has not called client.Do, and neither of its steps
\* writes accessToken, refreshToken or expiresAt.
C6_ForceRefreshNoToken ==
    [][\A t \in Threads :
         /\ Step(t) /\ pc[t] = "fr_read" /\ refreshToken = "" =>
              /\ Returns(t, "ForceRefresh")
              /\ ret'.err = ErrNoRefreshToken
              /\ ret'.nDo = 0
              /\ ret'.nNet = 0
              /\ UNCHANGED cacheVars
         /\ Step(t) /\ pc'[t] = "fr_read" => UNCHANGED cacheVars]_vars

\* ForceRefresh failed for want of a refresh token on a supplier whose
\* access token UpdateTokens had replaced.
C6_Witness ==
    /\ ret.op = "ForceRefresh"
    /\ ret.err = ErrNoRefreshToken
    /\ ret.nDo = 0
    /\ refreshToken = ""
    /\ accessToken = "ua"

\* C7: when UpdateTokens returns, each stored token is the argument given
\* for it if that is not empty and otherwise what it was when the call took
\* the lock, and expiresAt, clientID, clientSecret and tokenURL are what they
\* were; with two empty arguments nothing has changed.
C7_UpdateTokensFrame ==
    [][\A t \in Threads :
         Returns(t, "UpdateTokens") =>
           /\ accessToken' = IF arg[t].accessToken = ""
                             THEN pre[t].accessToken
                             ELSE arg[t].accessToken
           /\ refreshToken' = IF arg[t].refreshToken = ""
                              THEN pre[t].refreshToken
                              ELSE arg[t].refreshToken
           /\ expiresAt' = pre[t].expiresAt
           /\ clientID' = pre[t].clientID
           /\ clientSecret' = pre[t].clientSecret
           /\ tokenURL' = pre[t].tokenURL
           /\ arg[t] = NoArg =>
                /\ accessToken' = pre[t].accessToken
                /\ refreshToken' = pre[t].refreshToken]_vars

\* UpdateTokens with an access token and an empty refresh token returned:
\* the access token is the argument, the refresh token and the expiry are
\* those of the construction.
C7_Witness ==
    /\ ret.op = "UpdateTokens"
    /\ issued = 0
    /\ accessWriter = WriterUpdate
    /\ accessToken = "ua"
    /\ ctor.refreshToken # ""
    /\ refreshToken = ctor.refreshToken
    /\ expiresAt = DefaultExpiry

\* The program points between the first and the last write of an update.
MidUpdate == {"ra_w2", "ra_w3", "ut_w2"}

\* C8: GetTokens reads its two results at one instant at which no exchange
\* and no UpdateTokens is between its first and its last write: the pair it
\* returns is the pair cached at that instant.
C8_GetTokensPairWhole ==
    [][\A t \in Threads :
         Returns(t, "GetTokens") =>
           /\ wlock = NoThread
           /\ \A u \in Threads : pc[u] \notin MidUpdate
           /\ <<ret'.access, ret'.refresh>> = <<accessToken, refreshToken>>]_vars

\* GetTokens returned the pair of the construction while the exchange of the
\* other goroutine had its response and had not yet taken the lock.
C8_Witness ==
    /\ ret.op = "GetTokens"
    /\ ret.access = ctor.accessToken
    /\ ret.refresh = ctor.refreshToken
    /\ \E u \in Threads : pc[u] = "ra_lock" /\ lv[u].tokenResp.RefreshToken # ""

\* A goroutine can read the cache: one holds the read lock, or no goroutine
\* holds the exclusive lock.
Readable == rlocks # {} \/ wlock = NoThread

\* C9 as stated: whenever the cache can be read, expiresAt was written by the
\* operation that last wrote accessToken.
C9_ExpiryOfAccessToken == Readable => expiryWriter = accessWriter

\* C9 amended: whenever the cache can be read and accessToken was last
\* written by the construction or by an exchange, expiresAt was written by
\* that same operation.  (UpdateTokens writes accessToken and leaves
\* expiresAt.)
C9_ExpiryUnlessUpdated ==
    Readable /\ accessWriter # WriterUpdate => expiryWriter = accessWriter

\* The validity check of Add holds the read lock after an exchange: token and
\* expiry are both the exchange's.
C9_Witness ==
    /\ \E t \in rlocks : pc[t] = "gvt_check"
    /\ accessWriter = WriterExchange(1)
    /\ expiryWriter = WriterExchange(1)

\* The callbacks started: those not yet run and those that ran.
Started == pendingCb \cup {cbLog[i] : i \in 1..Len(cbLog)}

\* The exchanges that have written the cache and released the lock.
Completed == {k \in 1..MaxIssued : written[k] # NoPair}

\* C10, the part that holds in every state: a callback started belongs to a
\* completed exchange and carries the pair that exchange left in the cache;
\* with a callback configured every completed exchange has started one, and
\* none has run twice; without one none is started.
C10_Callbacks ==
    /\ \A c \in Started :
         /\ callback
         /\ c.id \in Completed
         /\ <<c.accessToken, c.refreshToken>> = written[c.id]
    /\ \A k \in Completed : callback => \E c \in Started : c.id = k
    /\ \A i, j \in 1..Len(cbLog) : cbLog[i].id = cbLog[j].id => i = j
    /\ \A c \in pendingCb : \A i \in 1..Len(cbLog) : cbLog[i].id # c.id
    /\ ~callback => Started = {}

\* C10: for every successful exchange on a supplier with a callback, the
\* callback is eventually invoked, once, with the pair the exchange left in
\* the cache; the call that made the exchange does not wait for it; without
\* a callback none is invoked.
C10_CallbackOnce ==
    /\ []C10_Callbacks
    /\ \A k \in 1..MaxIssued :
         (k \in Completed /\ callback) ~> (\E i \in 1..Len(cbLog) : cbLog[i].id = k)
    /\ [][\A t \in Threads : Step(t) /\ pc[t] = "ra_w3" => pc'[t] = "idle"]_vars

\* The call that made the exchange has returned and the callback for it has
\* not run yet; the refresh token it will be given is the one retained.
C10_Witness ==
    /\ ret.path = "refreshed"
    /\ ret.tokenResp.RefreshToken = ""
    /\ \E c \in pendingCb :
         /\ c.id = ret.tokenResp.id
         /\ c.accessToken = ret.tokenResp.AccessToken
         /\ c.refreshToken = ctor.refreshToken
    /\ cbLog = <<>>

\* C11: in refresh mode, when now + 5 min is before expiresAt at the validity
\* check, Add returns from that check with the cached access token attached,
\* has not called client.Do, and no step of the call has changed a field of
\* the supplier or started a callback.
C11_ValidTokenNoExchange ==
    [][\A t \in Threads :
         /\ Step(t) /\ pc[t] = "gvt_check" /\ now + RefreshBuffer < expiresAt =>
              /\ Returns(t, "Add")
              /\ ret'.token = accessToken
              /\ Len(ret'.header) > 0
              /\ Attached(ret'.header) = Bearer(accessToken)
              /\ ret'.nDo = 0
              /\ ret'.nNet = 0
              /\ UNCHANGED <<cacheVars, cfgVars, cbVars, issued>>
         /\ Step(t) /\ pc'[t] \in {"add_check", "gvt_rlock", "gvt_check"} =>
              UNCHANGED <<cacheVars, cfgVars, cbVars, issued>>]_vars

\* Add attached, without an exchange, the token an earlier exchange had
\* obtained after the token of the construction had turned stale.
C11_Witness ==
    /\ ret.op = "Add"
    /\ ret.path = "valid"
    /\ ret.nDo = 0
    /\ now > 0
    /\ ret.token = IssuedAccess(1)
    /\ accessToken = IssuedAccess(1)
    /\ now + RefreshBuffer < expiresAt

\* The program points of Add between the stale validity check and the return.
AfterStaleCheck ==
    {"ra_net", "ra_lock", "ra_w2", "ra_w3", "add_fb_rlock", "add_fb_read"}

\* The requests one call of client.Do sends: none when o.tokenURL is empty.
Sends == IF tokenURL = "" THEN 0 ELSE 1

C13_EmptyAccessTokenFails ==
    [][/\ \A t \in Threads :
            Step(t) /\ pc[t] \in {"ra_lock", "ra_w2", "ra_w3"}
                    /\ lv[t].tokenResp.AccessToken = "" =>
              /\ UNCHANGED <<cacheVars, cbVars>>
              /\ Returns(t, "ForceRefresh") => ret'.err # NoErr
       /\ accessToken # "" => accessToken' # ""]_vars

\* C14 as stated: after Add the first Authorization value of the request, the
\* one Header.Get returns, is "Bearer " and the token Add chose, and it is
\* the only value.
C14_HeaderSet ==
    [][\A t \in Threads :
         Returns(t, "Add") =>
           /\ HeaderGet(ret'.header) = "Bearer " \o ret'.token
           /\ Len(ret'.header) = 1]_vars

\* C14 amended: Add appends "Bearer " and the token it chose to the
\* Authorization values the request came with and leaves those in place; on
\* a request that came without one, Header.Get then returns Add's value and
\* it is the only value.
C14_HeaderAppended ==
    [][\A t \in Threads :
         Returns(t, "Add") =>
           /\ \E req \in ReqHeaders :
                ret'.header = Append(req, "Bearer " \o ret'.token)
           /\ Len(ret'.header) = 1 =>
                HeaderGet(ret'.header) = "Bearer " \o ret'.token]_vars

\* Add left its value as the only one on a request that had come without,
\* after an exchange; the token is the one of the response.
C14_Witness ==
    /\ ret.op = "Add"
    /\ ret.path = "refreshed"
    /\ ret.token = IssuedAccess(1)
    /\ Len(ret.header) = 1
    /\ HeaderGet(ret.header) = "Bearer " \o IssuedAccess(1)

\* C15: neither step of GetTokens changes a field of the supplier or starts
\* a callback, it returns the cached pair, and when the call that returned
\* last before it was a GetTokens too (no Add, ForceRefresh or UpdateTokens
\* returned in between), it returns the same pair as that one.
C15_GetTokensReadOnly ==
    [][\A t \in Threads :
         /\ Step(t) /\ (pc'[t] = "gt_read" \/ pc[t] = "gt_read") =>
              UNCHANGED <<cacheVars, cfgVars, cbVars, issued>>
         /\ Returns(t, "GetTokens") =>
              /\ ret'.access = accessToken
              /\ ret'.refresh = refreshToken
              /\ ret.op = "GetTokens" =>
                   /\ ret'.access = ret.access
                   /\ ret'.refresh = ret.refresh]_vars

\* A GetTokens of g2 has returned the pair of the construction and a
\* GetTokens of g1 is about to return.
C15_Witness ==
    /\ ret.op = "GetTokens"
    /\ ret.t = "g2"
    /\ ret.access = ctor.accessToken
    /\ ret.refresh = ctor.refreshToken
    /\ op["g1"] = "GetTokens"
    /\ pc["g1"] = "gt_read"

\* C16: as long as no operation has been called, the supplier is as
\* NewAuthorizerV2 made it at time 0: the tokens are those given; with an
\* empty refresh token clientID, clientSecret and tokenURL are empty; with a
\* refresh token they are the ones given and the endpoint of the API, and
\* expiresAt is two hours after the construction.
C16_Construction ==
    calls = 0 =>
      /\ accessToken = ctor.accessToken
      /\ refreshToken = ctor.refreshToken
      /\ callback = ctor.callback
      /\ ctor.refreshToken = "" =>
           /\ clientID = ""
           /\ clientSecret = ""
           /\ tokenURL = ""
      /\ ctor.refreshToken # "" =>
           /\ clientID = ctor.clientID
           /\ clientSecret = ctor.clientSecret
           /\ tokenURL = "https://api.twitter.com/2/oauth2/token"
           /\ expiresAt = 7200

\* A supplier constructed with credentials and no refresh token, not yet
\* used: the credentials are gone.
C16_Witness ==
    /\ calls = 0
    /\ ctor.refreshToken = ""
    /\ ctor.clientID # ""
    /\ ctor.clientSecret # ""
    /\ clientID = ""
    /\ clientSecret = ""
    /\ tokenURL = ""
    /\ accessToken = ctor.accessToken


(***************************************************************************)
(* Properties of the client library, under ClientSpec.                     *)
(***************************************************************************)
\* The call of the client function fn has returned.
Returned(fn) == cfn = fn /\ cpc = "idle"

\* How often a call occurs in the trace.
Count(call) == Cardinality({i \in DOMAIN trace : trace[i] = call})

\* C17: every scope in the group ReadOnlyScopes is one of the nine read
\* scopes tweet.read, users.read, follows.read, like.read, list.read,
\* block.read, mute.read, space.read and bookmark.read, so that
\* TestReadOnlyScopes reports nothing.
C17_OnlyEnumeratedReadScopes ==
    Returned("ReadOnlyScopes") =>
      /\ \A i \in DOMAIN cret.resp :
           cret.resp[i] \in
             {"tweet.read", "users.read", "follows.read", "like.read",
              "list.read", "block.read", "mute.read", "space.read",
              "bookmark.read"}
      /\ TestReadOnlyScopes(cret.resp) = {}

\* What C18 calls a rejection: the error returned wraps ErrParameter.
Rejected == ErrorsIs(cret.err, ErrParameter)

\* C18: when to reject a CreateDMConversationRequest.
C18_Invalid ==
    \/ Len(creq.ParticipantIDs) = 0
    \/ creq.Text = "" /\ creq.MediaID = ""

\* C18 as stated: CreateDMConversation rejects with ErrParameter exactly when
\* ParticipantIDs is empty or Text and MediaID are both empty; a rejected
\* call has called neither Add nor the transport, and every other call has
\* called Add exactly once, before the transport.
C18_RejectOrAddOnce ==
    Returned("CreateDMConversation") =>
      /\ Rejected <=> C18_Invalid
      /\ Rejected => trace = <<>>
      /\ ~Rejected => trace = <<"Add", "Do">>

\* C18 amended: the rejection is as stated; a call that is not rejected and
\* whose HTTP request can be built (the context is not nil) calls Add exactly
\* once and then the transport, and one whose request cannot be built
\* returns a nil response and an error that is not ErrParameter, having
\* called neither.  The transport is never called before Add.
C18_RejectOrBuildThenAddOnce ==
    /\ Returned("CreateDMConversation") =>
         /\ Rejected <=> C18_Invalid
         /\ Rejected => cret.resp = "nil" /\ trace = <<>>
         /\ ~Rejected /\ creq.ctx # "nil" => trace = <<"Add", "Do">>
         /\ ~Rejected /\ creq.ctx = "nil" =>
              /\ trace = <<>>
              /\ cret.resp = "nil"
              /\ cret.err # NilError
    /\ cfn = "CreateDMConversation" /\ cpc # "idle" =>
         /\ ~C18_Invalid
         /\ creq.ctx # "nil"
         /\ trace = IF cpc = "dm_add" THEN <<>> ELSE <<"Add">>

\* C18, reached: a request with participants and a media ID but no text was
\* accepted, authorized once and sent, and a response came back.
C18_Witness ==
    /\ Returned("CreateDMConversation")
    /\ Len(creq.ParticipantIDs) > 0
    /\ creq.Text = ""
    /\ creq.MediaID # ""
    /\ trace = <<"Add", "Do">>
    /\ cret.resp = "body"
    /\ cret.err = NilError

\* C19: UploadMedia rejects with ErrParameter exactly when Media is nil or
\* MediaCategory is empty, whatever MediaType, Shared and AdditionalOwners
\* are; a rejected call returns a nil response and has called neither Add nor
\* the transport, and a call that goes on to Add was not to be rejected.
C19_RejectBeforeAdd ==
    /\ Returned("UploadMedia") =>
         /\ Rejected <=> (creq.Media = "nil" \/ creq.MediaCategory = "")
         /\ Rejected => cret.resp = "nil" /\ trace = <<>>
    /\ cfn = "UploadMedia" /\ trace # <<>> =>
         creq.Media # "nil" /\ creq.MediaCategory # ""

\* C19, reached: a request with a media reader, a type, owners and the
\* shared flag but no category was rejected before Add.
C19_Witness ==
    /\ Returned("UploadMedia")
    /\ creq.Media = "reader"
    /\ creq.MediaCategory = ""
    /\ creq.MediaType # ""
    /\ creq.Shared
    /\ creq.AdditionalOwners # <<>>
    /\ Rejected
    /\ cret.resp = "nil"
    /\ trace = <<>>

\* The elements of a list of variants whose content type is video/mp4.
MP4s(variants) ==
    {i \in DOMAIN variants : variants[i].ContentType = "video/mp4"}

InFlight(t) == pc[t] = "ra_net"

\* C21: there is no single-flight gate.  A goroutine that finds the token
\* stale in getValidToken, or that is in ForceRefresh, on a supplier with a
\* refresh token and an endpoint starts an exchange of its own with the
\* refresh token it has just read, whether or not an exchange of another
\* goroutine is in flight.
C21_NoSingleFlight ==
    [][\A t \in Threads :
         /\ Step(t)
         /\ \/ pc[t] = "gvt_check" /\ ~StillValid(now, expiresAt)
            \/ pc[t] = "fr_read"
         /\ refreshToken # ""
         /\ tokenURL # ""
         => /\ InFlight(t)'
            /\ lv'[t].refreshToken = refreshToken
            /\ lv'[t].nNet = lv[t].nNet + 1]_vars

\* C21, reached: two Add calls have both found the token stale and both
\* exchanges are in flight with the same refresh token, none answered yet.
C21_Witness ==
    /\ \A t \in Threads : InFlight(t) /\ op[t] = "Add"
    /\ lv["g1"].refreshToken = lv["g2"].refreshToken
    /\ lv["g1"].refreshToken = refreshToken
    /\ ~StillValid(now, expiresAt)
    /\ issued = 0

\* Goroutine t holds o.mu, in either mode.
Holds(t) == wlock = t \/ t \in rlocks

\* C22: a goroutine whose exchange is in flight holds o.mu in neither mode,
\* and the lock an exchange took for its writes was released before its
\* callback was started: no goroutine holding the lock is in the exchange
\* of a callback that has not run yet.  So while one goroutine is inside the
\* network call, the other is not kept waiting by it: where it is about to
\* take the read lock (Add, getValidToken, ForceRefresh, GetTokens) or the
\* exclusive lock (UpdateTokens, the writes of its own exchange) it can.
C22_NoLockAcrossNetwork ==
    /\ \A t \in Threads : InFlight(t) => ~Holds(t)
    /\ \A c \in pendingCb : \A t \in Threads :
         Holds(t) => lv[t].tokenResp.id # c.id
    /\ \A t \in Threads : \A u \in Threads \ {t} :
         InFlight(t) =>
           /\ pc[u] \in {"idle", "gvt_rlock", "add_fb_rlock"} => CanRLock(u)
           /\ pc[u] \in {"idle", "ra_lock"} => CanLock(u)

\* C22, reached: g1 is inside the network call and g2, having called
\* UpdateTokens meanwhile, holds the exclusive lock.
C22_Witness ==
    /\ InFlight("g1")
    /\ ~Holds("g1")
    /\ wlock = "g2"
    /\ op["g2"] = "UpdateTokens"

C24_ExpiryFromResponse ==
    [][\A t \in Threads :
         /\ Step(t) /\ pc[t] = "ra_w3" =>
              IF Positive64(lv[t].tokenResp.ExpiresIn)
              THEN Int64(expiresAt' - now) = lv[t].tokenResp.ExpiresIn
              ELSE expiresAt' = now + 7200
         /\ Step(t) /\ pc[t] = "ra_lock" => wlock' = t
         /\ Step(t) /\ pc[t] \in {"ra_w2", "ra_w3"} => wlock = t
         /\ wlock = t /\ pc[t] \in {"ra_w2", "ra_w3"} /\ ~Step(t) =>
              UNCHANGED cacheVars]_vars

\* C25: the token an Add call attaches is the cached access token of the
\* instant at which the call read it, in the step of the call that ends
\* with the header added: the static read, the read of the valid token, the
\* read after its own exchange wrote it (then it is also the token of the
\* response), or the read after a failed exchange.
C25_AttachedWasCached ==
    [][\A t \in Threads :
         Returns(t, "Add") =>
           /\ ret'.token = accessToken
           /\ pc[t] \in {"add_check", "gvt_check", "ra_w3", "add_fb_read"}
           /\ ret'.path = "refreshed" =>
                /\ wlock = t
                /\ ret'.token = ret'.tokenResp.AccessToken
           /\ ret'.path # "refreshed" => t \in rlocks]_vars

\* C25, reached: g1's Add found the token stale and sent the refresh token
\* of the construction, its exchange failed, UpdateTokens replaced both
\* tokens meanwhile (the refresh token cached is no longer the one sent), and
\* g1 attached the replacement.
C25_Witness ==
    /\ ret.t = "g1"
    /\ ret.op = "Add"
    /\ ret.path = "fallback"
    /\ ret.sent = ctor.refreshToken
    /\ refreshToken = "ur"
    /\ ret.token = "ua"
    /\ ret.token # ctor.accessToken
    /\ accessWriter = WriterUpdate
    /\ calls = 2

\* No exchange is under way: no goroutine is between the call of
\* o.client.Do and the release of the exclusive lock.
ExchangesDone ==
    \A t \in Threads : pc[t] \notin {"ra_net", "ra_lock", "ra_w2", "ra_w3"}

\* The endpoint has rotated the refresh token on every use: each 200
\* response carried a new access token and a new refresh token.
Rotating ==
    \A k \in 1..issued : answered[k] = <<IssuedAccess(k), IssuedRefresh(k)>>

\* C26 as stated: against a rotating endpoint, with no UpdateTokens call,
\* once no exchange is under way the cached (access, refresh) pair is the
\* pair of the response the endpoint gave last.
C26_CachedIsLatestIssued ==
    ExchangesDone /\ Rotating /\ updates = 0 /\ issued > 0
        => <<accessToken, refreshToken>> = answered[issued]

\* C26, amended: under the same conditions the cached pair is the whole pair
\* of one response, that of the exchange that took the exclusive lock last,
\* with the expiry that exchange wrote; it need not be the response given
\* last.
C26_CachedIsLastLocked ==
    ExchangesDone /\ Rotating /\ updates = 0 /\ issued > 0
        => \E k \in 1..issued :
               /\ accessWriter = WriterExchange(k)
               /\ expiryWriter = WriterExchange(k)
               /\ <<accessToken, refreshToken>> = answered[k]
               /\ written[k] = answered[k]

\* C26, reached: two exchanges overlapped, the endpoint answered both with a
\* rotated pair, both have finished, and the cache holds the pair of the
\* first response although the second was given later.
C26_Witness ==
    /\ ExchangesDone
    /\ Rotating
    /\ updates = 0
    /\ issued = 2
    /\ <<accessToken, refreshToken>> = answered[1]
    /\ written[2] = answered[2]
    /\ accessWriter = WriterExchange(1)

\* Every callback goroutine that was started has run.
CallbacksDone == pendingCb = {}

\* The pair an invocation of the callback delivered.
Delivered(c) == <<c.accessToken, c.refreshToken>>

\* C27 as stated: with no UpdateTokens call, once no exchange is under way
\* and every callback has run, the pair delivered to the callback that ran
\* last is the cached pair, the one GetTokens returns.
C27_LastCallbackIsCache ==
    ExchangesDone /\ CallbacksDone /\ updates = 0 /\ cbLog # <<>>
        => Delivered(cbLog[Len(cbLog)]) = <<accessToken, refreshToken>>

\* C27, amended: under the same conditions, on a supplier with a callback
\* that has had an exchange succeed, the cached pair was delivered to the
\* callback of the exchange that took the exclusive lock last; that
\* invocation is one of those that ran, not necessarily the last.
C27_CallbackOfLastExchange ==
    ExchangesDone /\ CallbacksDone /\ updates = 0 /\ callback /\ issued > 0
        => \E i \in 1..Len(cbLog) :
               /\ accessWriter = WriterExchange(cbLog[i].id)
               /\ Delivered(cbLog[i]) = <<accessToken, refreshToken>>

\* C27, reached: two exchanges have finished, the second one last, and their
\* callbacks ran in the opposite order, so that the callback that ran last
\* delivered a pair that is no longer the cached one.
C27_Witness ==
    /\ ExchangesDone
    /\ CallbacksDone
    /\ updates = 0
    /\ Len(cbLog) = 2
    /\ cbLog[1].id = 2
    /\ cbLog[2].id = 1
    /\ accessWriter = WriterExchange(2)
    /\ Delivered(cbLog[1]) = <<accessToken, refreshToken>>
    /\ Delivered(cbLog[2]) # <<accessToken, refreshToken>>

\* C28: no step empties a refresh token that is not empty.  A response
\* without a refresh token and an UpdateTokens call with an empty refresh
\* token leave the stored one in place, and nothing else writes it.
C28_RefreshTokenStays ==
    [][refreshToken # "" => refreshToken' # ""]_vars

\* C28, reached: an exchange whose response carried no refresh token has
\* finished and an UpdateTokens call has returned, and the refresh token is
\* still that of the construction.
C28_Witness ==
    /\ ctor.refreshToken # ""
    /\ refreshToken = ctor.refreshToken
    /\ answered[1][2] = ""
    /\ written[1] = <<answered[1][1], ctor.refreshToken>>
    /\ updates = 1
    /\ \A t \in Threads : pc[t] = "idle"

\* The supplier is in refresh mode and its token is stale.
Stale == refreshToken # "" /\ ~StillValid(now, expiresAt)

\* C29: a stale supplier in refresh mode stays stale in every step but the
\* expiry write of a successful exchange: UpdateTokens, GetTokens, a failed
\* exchange and the advance of the clock leave it stale.  An Add that reads
\* the expiry while it is stale calls o.client.Do with the stored refresh
\* token.
C29_StaleUntilExchange ==
    [][Stale =>
         /\ Stale' \/ \E t \in Threads : Step(t) /\ pc[t] = "ra_w3"
         /\ \A t \in Threads :
              Step(t) /\ pc[t] = "gvt_check" =>
                /\ lv'[t].nDo = lv[t].nDo + 1
                /\ lv'[t].refreshToken = refreshToken
                /\ InFlight(t)' \/ tokenURL = ""]_vars

\* C29, reached: the clock has advanced past the buffer, UpdateTokens has
\* stored a new access token since, the supplier is still stale, and an Add
\* has its exchange in flight.
C29_Witness ==
    /\ Stale
    /\ ticks = 1
    /\ issued = 0
    /\ updates = 1
    /\ accessWriter = WriterUpdate
    /\ accessToken = "ua"
    /\ \E t \in Threads : InFlight(t) /\ op[t] = "Add" /\ lv[t].nNet = 1

(***************************************************************************)
(* The locking protocol, under ReentrantSpec.                              *)
(***************************************************************************)
\* The positions at which a goroutine is about to acquire o.mu.  A goroutine
\* that is idle acquires it as the first thing in the operation it calls
\* next.
Acquiring == {"idle", "gvt_rlock", "ra_lock", "add_fb_rlock"}

\* A goroutine holds o.mu neither where it is about to acquire it, nor
\* between two calls, nor while o.client.Do is under way, and a callback
\* that has returned holds nothing; the exclusive lock excludes the readers.
C30_LockDiscipline ==
    /\ \A t \in Threads :
         pc[t] \in Acquiring \cup {"ra_net"} => ~Holds(t)
    /\ \A i \in 1..Len(cbLog) : ~CbHolds(cbLog[i])
    /\ wlock # NoThread => rlocks = {}

\* C30: the locking protocol is deadlock-free.  Every acquisition of o.mu
\* is released before the goroutine returns, acquires again or waits for
\* the network, and, callbacks that call GetTokens or UpdateTokens
\* included, every call of a public operation whose request to the token
\* endpoint is answered returns, and every callback returns.
C30_DeadlockFree ==
    /\ []C30_LockDiscipline
    /\ \A t \in Threads : (pc[t] # "idle") ~> (pc[t] = "idle")
    /\ \A k \in 1..MaxIssued :
         (\E c \in pendingCb : c.id = k)
             ~> (\E i \in 1..Len(cbLog) : cbLog[i].id = k)

\* C30, reached: the callback of the first exchange is inside UpdateTokens
\* with the exclusive lock while a goroutine in Add waits for the read lock
\* of getValidToken.
C30_Witness ==
    /\ \E c \in pendingCb : c.id = 1 /\ wlock = CbName(c)
    /\ \E t \in Threads : pc[t] = "gvt_rlock" /\ op[t] = "Add"
=============================================================================
